---- MODULE Spec2Model ----
(***************************************************************************)
(* Model of main.py: the command fetcher (gated queue), the command        *)
(* printer (dispatcher: classification, start/stop handling, concurrent    *)
(* regular commands) and the per-serial game sessions with their           *)
(* supervising loop threads and adb processes.                             *)
(*                                                                         *)
(* Every region the code runs under one lock is one atomic action; code    *)
(* that runs outside a lock and reads or writes shared state is its own    *)
(* step, so that the threads interleave as they can in the program.        *)
(***************************************************************************)
EXTENDS Integers, Sequences, FiniteSets, TLC

\* ----------------------------------------------------------------- bounds
MaxBatch == 2       \* commands in one subscribe response
MaxSessions == 2    \* session dicts created by handle_start_game in a run

\* ----------------------------------------------------------------- inputs
\* A command text is a sequence of words.  Two words stand for the two
\* signatures the printer looks for, QUOTE for an unbalanced quote character
\* (shlex.split raises ValueError on it), "echo" for anything else.
START_SIG == "nat.myc.test/androidx.test.runner.AndroidJUnitRunner"
STOP_SIG == "force-stop nat.myc.test"
QUOTE == "'"

Serials == {"s1", "s2"}

Texts ==
    { <<START_SIG>>, <<STOP_SIG>>, <<"echo">>,
      <<"echo", QUOTE>>, <<STOP_SIG, QUOTE>>, <<START_SIG, QUOTE>> }

\* What item.get(...) can return for an entry of a response: "" and <<>> also
\* stand for a missing field.  The second device receives one-shot commands
\* only; sessions are started and stopped on the first.
RawSerials == Serials \cup {""}
RawTexts == Texts \cup {<<>>}
RawItems ==
    {item \in [serial : RawSerials, command_text : RawTexts] :
        item.serial = "s2" => item.command_text = <<"echo">>}

SeqsUpTo(S, n) == UNION {[1..k -> S] : k \in 0..n}

Responses == SeqsUpTo(RawItems, MaxBatch)

\* exit codes of a one-shot adb run: 0, a nonzero exit, -1 for a launch fault
ExitCodes == {0, 1}
LaunchFault == -1

\* ------------------------------------------------------- pure operators
Contains(text, sig) == \E i \in 1..Len(text) : text[i] = sig

RECURSIVE CountWord(_, _)
CountWord(text, w) ==
    IF text = <<>> THEN 0
    ELSE (IF Head(text) = w THEN 1 ELSE 0) + CountWord(Tail(text), w)

\* shlex.split(command_text) returns normally iff the quotes are balanced
Tokenizable(text) == CountWord(text, QUOTE) % 2 = 0

\* fetch_loop: the list comprehension that keeps the entries having both fields
Truthy(item) == item.command_text # <<>> /\ item.serial # ""
Simplify(cmd_items) == SelectSeq(cmd_items, Truthy)

\* print_loop: the if / elif / else of the classification
Classify(cmd) ==
    IF ~Truthy(cmd) THEN "skip"
    ELSE IF Contains(cmd.command_text, START_SIG) THEN "start"
    ELSE IF Contains(cmd.command_text, STOP_SIG) THEN "stop"
    ELSE "regular"

IsStart(cmd) == Classify(cmd) = "start"

\* mutant: "if" in place of "elif": the stop signature is tested on its own
IsStopNoElif(cmd) == Truthy(cmd) /\ Contains(cmd.command_text, STOP_SIG)

IsStop(cmd) == Classify(cmd) = "stop"
IsRegular(cmd) == Classify(cmd) = "regular"

StartGroup(b) == SelectSeq(b, IsStart)
StopGroup(b) == SelectSeq(b, IsStop)
RegularGroup(b) == SelectSeq(b, IsRegular)

\* ------------------------------------------------------------------ state
VARIABLES
    stop_signal,    \* main's stop_event
    commands,       \* the shared command list (the queue)
    unread,         \* history: the queue holds a batch the printer has not copied yet
    game_sessions,  \* serial -> id of its session dict, 0 for no entry
    sess,           \* the session dicts ever created, by id, each with its loop thread
    ppc,            \* print_loop: where the printer thread is
    batch, start_batch, stop_batch, regular_batch,   \* print_loop locals
    idx,            \* print_loop: position in the list being iterated
    started, stopped,     \* history: handle_start_game / handle_stop_game calls
                          \* that have returned in this cycle
    stopSess, stopProc,   \* handle_stop_game locals: session, proc
    pops, oneshots, killed,   \* history of the current handle_stop_game call: pops
                          \* of the map, one-shot runs, whether proc.kill() ran
    workers,        \* the worker threads of the cycle: "running" | "done" | "died"
    results,        \* the results list of the cycle
    success_count, fail_count, logged  \* the summary and the error-log lines of the cycle

vars == <<stop_signal, commands, unread, game_sessions, sess, ppc,
          batch, start_batch, stop_batch, regular_batch, idx,
          started, stopped, stopSess, stopProc, pops, oneshots, killed,
          workers, results,
          success_count, fail_count, logged>>

queueVars == <<commands, unread>>
sessionVars == <<game_sessions, sess>>
printerLocals == <<batch, start_batch, stop_batch, regular_batch, idx, started, stopped>>
stopLocals == <<stopSess, stopProc, pops, oneshots, killed>>
regularVars == <<workers, results, success_count, fail_count, logged>>

\* A session dict and its loop thread:
\*   stop     stop_evt.is_set()
\*   tpc      where the loop thread is; "none" while session["thread"] is None
\*   proc     the loop's local proc: "None", or the state of the process it
\*            launched last ("live", "exited"); the loop waits for that process
\*            to exit before it launches another, so it has one at a time
\*   process  whether session["process"] holds proc (else it is None); the
\*            loop sets it from proc and clears it before it launches again, so
\*            it never holds an older process
NewSession(serial) ==
    [serial |-> serial, stop |-> FALSE, tpc |-> "none", proc |-> "None",
     process |-> FALSE]

\* thread.is_alive()
ThreadAlive(s) == s.tpc \notin {"none", "done"}

Init ==
    /\ stop_signal = FALSE
    /\ commands = <<>>
    /\ unread = FALSE
    /\ game_sessions = [s \in Serials |-> 0]
    /\ sess = <<>>
    /\ ppc = "top"
    /\ batch = <<>> /\ start_batch = <<>> /\ stop_batch = <<>> /\ regular_batch = <<>>
    /\ idx = 0
    /\ started = 0 /\ stopped = 0
    /\ stopSess = 0 /\ stopProc = FALSE /\ pops = 0 /\ oneshots = 0 /\ killed = FALSE
    /\ workers = <<>>
    /\ results = <<>>
    /\ success_count = 0 /\ fail_count = 0 /\ logged = <<>>

\* ------------------------------------------------------------------ main
\* KeyboardInterrupt in main: stop_event.set()
Shutdown ==
    /\ ~stop_signal
    /\ stop_signal' = TRUE
    /\ UNCHANGED <<queueVars, sessionVars, ppc, printerLocals, stopLocals, regularVars>>

\* ------------------------------------------------------------- fetch_loop
FetchFrame ==
    UNCHANGED <<stop_signal, sessionVars, ppc, printerLocals, stopLocals, regularVars>>

\* the simplified lists the responses can give
SimplifiedResponses == {Simplify(cmd_items) : cmd_items \in Responses}

\* mutant: the fetcher extends the list without looking at it
GateOpen(queue) == TRUE

\* "if commands: pass / else: commands.extend(simplified)", under commands_lock
Gate(queue) == queue = <<>>

\* One iteration of the while loop that gets a 200 response: with the queue
\* still pending the response is dropped whatever it holds, else its
\* simplified list (which may be empty) is appended.
FetchResponse ==
    /\ ~stop_signal
    /\ IF Gate(commands)
       THEN \E simplified \in SimplifiedResponses : commands' = commands \o simplified
       ELSE UNCHANGED commands
    /\ unread' = (unread \/ commands' # commands)
    /\ FetchFrame

\* one iteration with a non-200 status or an exception of requests.get
FetchError ==
    /\ ~stop_signal
    /\ UNCHANGED queueVars
    /\ FetchFrame

\* ------------------------------------------------- handle_start_game.loop
\* the frame of a step of a session's loop thread
LoopFrame ==
    UNCHANGED <<stop_signal, queueVars, game_sessions, ppc, printerLocals,
                stopLocals, regularVars>>

\* mutant: the loop ends after one process, whatever stop_evt says
AfterStopTestBreaks(is_set, goOn) == "done"

\* where the loop goes after it has read stop_evt.is_set(): at the while
\* test, and at "if stop_evt.is_set(): break" after the finally block
AfterStopTest(is_set, goOn) == IF is_set THEN "done" ELSE goOn

\* while not stop_evt.is_set(): proc = None; subprocess.Popen(cmd, ...)
\* returns a running process
LoopPopen(i) ==
    /\ sess[i].tpc = "while"
    /\ sess' = [sess EXCEPT ![i].tpc = AfterStopTest(sess[i].stop, "publish"),
                            ![i].proc = IF sess[i].stop THEN sess[i].proc ELSE "live"]
    /\ LoopFrame

\* The same, with Popen raising (adb missing, no resources): except, the
\* finally block with session["process"] None as before, stop_evt not set,
\* stop_evt.wait(1): the iteration changes nothing.
LoopPopenRaises(i) ==
    /\ sess[i].tpc = "while"
    /\ ~sess[i].stop
    /\ UNCHANGED sess
    /\ LoopFrame

\* with game_sessions_lock: session["process"] = proc
LoopPublish(i) ==
    /\ sess[i].tpc = "publish"
    /\ sess' = [sess EXCEPT ![i].tpc = "communicate", ![i].process = TRUE]
    /\ LoopFrame

\* proc.communicate() returns once the process has exited; finally: with
\* game_sessions_lock: session["process"] = None; then "if stop_evt.is_set():
\* break", else stop_evt.wait(1).  The local proc keeps the exited process
\* until "proc = None".
LoopCommunicate(i) ==
    /\ sess[i].tpc = "communicate"
    /\ sess[i].proc = "exited"
    /\ sess' = [sess EXCEPT ![i].tpc = AfterStopTest(sess[i].stop, "while"),
                            ![i].process = FALSE]
    /\ LoopFrame

\* the game process of session i ends by itself: a crash or its natural end
ProcExit(i) ==
    /\ sess[i].proc = "live"
    /\ sess' = [sess EXCEPT ![i].proc = "exited"]
    /\ LoopFrame

\* ------------------------------------------------------------- print_loop
PrinterFrame == UNCHANGED <<stop_signal, unread>>

\* while not stop_signal.is_set() fails: the thread ends
PrinterExit ==
    /\ ppc = "top"
    /\ stop_signal
    /\ ppc' = "done"
    /\ UNCHANGED <<commands, sessionVars, printerLocals, stopLocals, regularVars>>
    /\ PrinterFrame

\* Where print_loop stands next: the three for loops and the "if
\* regular_batch:" in their order, an exhausted loop being passed over.
AfterJoin(ws, i) == IF i <= Len(ws) THEN <<"join", i>> ELSE <<"summary", 0>>
\* mutant: the loop of worker.join() is missing
AfterSpawnNoJoin(rb, i) == IF i <= Len(rb) THEN <<"spawn", i>> ELSE <<"summary", 0>>

AfterSpawn(rb, i) == IF i <= Len(rb) THEN <<"spawn", i>> ELSE <<"join", 1>>
AfterStops(tb, rb, i) ==
    IF i <= Len(tb) THEN <<"stops", i>>
    ELSE IF rb # <<>> THEN <<"spawn", 1>> ELSE <<"clear", 0>>
\* mutant: the regular block stands before the loop over stop_batch, and
\* the cycle ends after it
AfterStartsRegularFirst(sb, tb, rb, i) ==
    IF i <= Len(sb) THEN <<"starts", i>>
    ELSE IF rb # <<>> THEN <<"spawn", 1>> ELSE AfterStops(tb, rb, 1)

AfterStarts(sb, tb, rb, i) ==
    IF i <= Len(sb) THEN <<"starts", i>> ELSE AfterStops(tb, rb, 1)

\* print_loop moves on to the place and position `next`
GoTo(next) == ppc' = next[1] /\ idx' = next[2]

\* mutant: the copy takes the first command only
CopyOfHead(queue) == IF queue = <<>> THEN <<>> ELSE <<Head(queue)>>

\* with commands_lock: if commands: batch = commands[:]
CopyOfQueue(queue) == queue

\* One pass from the while test to the first command handled: the copy of
\* the queue, "if not batch: wait; continue", and the classification loop.
Drain ==
    /\ ppc = "top"
    /\ ~stop_signal
    /\ batch' = CopyOfQueue(commands)
    /\ unread' = (unread /\ batch' = <<>>)
    /\ start_batch' = StartGroup(batch')
    /\ stop_batch' = StopGroup(batch')
    /\ regular_batch' = RegularGroup(batch')
    /\ IF batch' = <<>>
       THEN UNCHANGED <<ppc, idx>>
       ELSE GoTo(AfterStarts(start_batch', stop_batch', regular_batch', 1))
    /\ UNCHANGED <<stop_signal, commands, sessionVars, started, stopped, stopLocals,
                   regularVars>>

\* mutant: the liveness test is inverted
StartIsNoopWhenDead(sid) == sid # 0 /\ ~ThreadAlive(sess[sid])

\* handle_start_game: "session and session.get('thread') and thread.is_alive()"
StartIsNoop(sid) == sid # 0 /\ ThreadAlive(sess[sid])

\* handle_start_game(serial, text) for start_batch[idx].  The session is
\* registered under the lock; then shlex.split raises out of print_loop, which
\* has no handler, or the loop thread is created and started.  No other thread
\* reads session["thread"], so the call is one step.
HandleStart ==
    /\ ppc = "starts"
    /\ LET serial == start_batch[idx].serial
           text == start_batch[idx].command_text
           sid == Len(sess) + 1
       IN IF StartIsNoop(game_sessions[serial])
          THEN /\ GoTo(AfterStarts(start_batch, stop_batch, regular_batch, idx + 1))
               /\ started' = started + 1
               /\ UNCHANGED <<game_sessions, sess>>
          ELSE /\ Len(sess) < MaxSessions
               /\ game_sessions' = [game_sessions EXCEPT ![serial] = sid]
               /\ IF Tokenizable(text)
                  THEN /\ sess' = Append(sess, [NewSession(serial) EXCEPT !.tpc = "while"])
                       /\ GoTo(AfterStarts(start_batch, stop_batch, regular_batch,
                                           idx + 1))
                       /\ started' = started + 1
                  ELSE /\ sess' = Append(sess, NewSession(serial))
                       /\ ppc' = "dead"
                       /\ UNCHANGED <<idx, started>>
    /\ UNCHANGED <<commands, batch, start_batch, stop_batch, regular_batch, stopped,
                   stopLocals, regularVars>>
    /\ PrinterFrame

\* ------------------------------------------------------- handle_stop_game
StopFrame ==
    /\ UNCHANGED <<commands, batch, start_batch, stop_batch, regular_batch, started,
                   regularVars>>
    /\ PrinterFrame

\* with game_sessions_lock: session = game_sessions.get(serial); if session:
StopGet ==
    /\ ppc = "stops"
    /\ stopSess' = game_sessions[stop_batch[idx].serial]
    /\ stopProc' = FALSE
    /\ pops' = 0
    /\ oneshots' = 0
    /\ killed' = FALSE
    /\ ppc' = IF stopSess' # 0 THEN "stop_set" ELSE "stop_run"
    /\ UNCHANGED <<sessionVars, idx, stopped>>
    /\ StopFrame

\* stop_evt.set()
StopSet ==
    /\ ppc = "stop_set"
    /\ sess' = [sess EXCEPT ![stopSess].stop = TRUE]
    /\ ppc' = "stop_read"
    /\ UNCHANGED <<game_sessions, idx, stopped, stopLocals>>
    /\ StopFrame

\* proc = session.get("process"), read without the lock; then
\* "if proc and proc.poll() is None: proc.terminate()"
StopRead ==
    /\ ppc = "stop_read"
    /\ stopProc' = sess[stopSess].process
    /\ ppc' = IF stopProc' /\ sess[stopSess].proc = "live" THEN "stop_wait" ELSE "stop_join"
    /\ UNCHANGED <<sessionVars, idx, stopped, stopSess, pops, oneshots, killed>>
    /\ StopFrame

\* proc.wait(timeout=5) returns: the process exited within the grace period
StopWaitExited ==
    /\ ppc = "stop_wait"
    /\ sess[stopSess].proc # "live"
    /\ ppc' = "stop_join"
    /\ UNCHANGED <<sessionVars, idx, stopped, stopLocals>>
    /\ StopFrame

\* mutant: the timeout is swallowed without the kill
KillIgnored(s) == s

\* proc.kill() on the process of session dict s
Kill(s) == [s EXCEPT !.proc = IF s.proc = "live" THEN "exited" ELSE s.proc]

\* proc.wait(timeout=5) raises TimeoutExpired, the process being still alive;
\* except Exception: proc.kill()
StopWaitTimeout ==
    /\ ppc = "stop_wait"
    /\ sess[stopSess].proc = "live"
    /\ sess' = [sess EXCEPT ![stopSess] = Kill(sess[stopSess])]
    /\ killed' = TRUE
    /\ ppc' = "stop_join"
    /\ UNCHANGED <<game_sessions, idx, stopped, stopSess, stopProc, pops, oneshots>>
    /\ StopFrame

\* thread.join(timeout=5) returns because the loop thread has ended
StopJoinEnded ==
    /\ ppc = "stop_join"
    /\ ~ThreadAlive(sess[stopSess])
    /\ ppc' = "stop_pop"
    /\ UNCHANGED <<sessionVars, idx, stopped, stopLocals>>
    /\ StopFrame

\* thread.join(timeout=5) times out.  The loop thread blocks nowhere but in
\* proc.communicate(), so it outlasts the five seconds only there, on a
\* process that is still running.
JoinCanTimeOut(s) == s.tpc = "communicate" /\ s.proc = "live"

StopJoinTimeout ==
    /\ ppc = "stop_join"
    /\ JoinCanTimeOut(sess[stopSess])
    /\ ppc' = "stop_pop"
    /\ UNCHANGED <<sessionVars, idx, stopped, stopLocals>>
    /\ StopFrame

\* mutant: the pop is missing
PopNothing(map, serial) == map

\* mutant: the map is cleared
PopAll(map, serial) == [x \in DOMAIN map |-> 0]

\* with game_sessions_lock: game_sessions.pop(serial, None)
Pop(map, serial) == [map EXCEPT ![serial] = 0]

StopPop ==
    /\ ppc = "stop_pop"
    /\ game_sessions' = Pop(game_sessions, stop_batch[idx].serial)
    /\ pops' = pops + 1
    /\ ppc' = "stop_run"
    /\ UNCHANGED <<sess, idx, stopped, stopSess, stopProc, oneshots, killed>>
    /\ StopFrame

\* run_adb_once: shlex.split(command_text) stands before its try block
RunAdbOnceRaises(text) == ~Tokenizable(text)

\* result = run_adb_once(serial, command_text): the one-shot stop command.
\* Its result is dropped; a ValueError of shlex.split leaves print_loop.
StopRun ==
    /\ ppc = "stop_run"
    /\ IF RunAdbOnceRaises(stop_batch[idx].command_text)
       THEN /\ ppc' = "dead"
            /\ UNCHANGED <<idx, oneshots, stopped>>
       ELSE /\ GoTo(AfterStops(stop_batch, regular_batch, idx + 1))
            /\ oneshots' = oneshots + 1
            /\ stopped' = stopped + 1
    /\ UNCHANGED <<sessionVars, stopSess, stopProc, pops, killed>>
    /\ StopFrame

\* ------------------------------------------------------- regular commands
RegularFrame ==
    /\ UNCHANGED <<commands, sessionVars, batch, start_batch, stop_batch, regular_batch,
                   started, stopped, stopLocals>>
    /\ PrinterFrame

\* worker = threading.Thread(target=run_regular_command, ...); worker.start()
Spawn ==
    /\ ppc = "spawn"
    /\ workers' = Append(workers, "running")
    /\ GoTo(AfterSpawn(regular_batch, idx + 1))
    /\ UNCHANGED <<results, success_count, fail_count, logged>>
    /\ RegularFrame

\* what run_adb_once returns: the exit code of the process, or -1 with the
\* fault text when Popen raised
RunAdbOnceResults(serial) ==
    {[serial |-> serial, code |-> c] : c \in ExitCodes \cup {LaunchFault}}

\* run_regular_command on worker thread w: run_adb_once, then the append under
\* results_lock.  When run_adb_once raises, the thread ends with no result.
WorkerRun(w) ==
    /\ w \in 1..Len(workers)
    /\ workers[w] = "running"
    /\ IF RunAdbOnceRaises(regular_batch[w].command_text)
       THEN /\ workers' = [workers EXCEPT ![w] = "died"]
            /\ UNCHANGED results
       ELSE /\ workers' = [workers EXCEPT ![w] = "done"]
            /\ \E r \in RunAdbOnceResults(regular_batch[w].serial) :
                   results' = Append(results, r)
    /\ UNCHANGED <<ppc, idx, success_count, fail_count, logged>>
    /\ RegularFrame

\* worker.join() returns once the worker thread has ended
Join ==
    /\ ppc = "join"
    /\ workers[idx] # "running"
    /\ GoTo(AfterJoin(workers, idx + 1))
    /\ UNCHANGED <<workers, results, success_count, fail_count, logged>>
    /\ RegularFrame

Succeeded(r) == r.code = 0

\* mutant: a failure is taken to be a positive exit code
FailedPositive(r) == r.code > 0

Failed(r) == r.code # 0

\* success_count, fail_results, the [SUMARY] line, and one append_error_log
\* per failed result
Summary ==
    /\ ppc = "summary"
    /\ success_count' = Len(SelectSeq(results, Succeeded))
    /\ fail_count' = Len(SelectSeq(results, Failed))
    /\ logged' = [k \in 1..Len(SelectSeq(results, Failed)) |->
                     SelectSeq(results, Failed)[k].serial]
    /\ ppc' = "clear"
    /\ UNCHANGED <<idx, workers, results>>
    /\ RegularFrame

\* mutant: the clear at the end of the cycle is missing
ClearedNothing(queue) == queue

\* what commands.clear() leaves of the queue
Cleared(queue) == <<>>

\* with commands_lock: commands.clear(); stop_signal.wait(interval).  The
\* locals of the cycle are dead from here on and are reset, as the next
\* iteration rebinds them.
Clear ==
    /\ ppc = "clear"
    /\ commands' = Cleared(commands)
    /\ batch' = <<>> /\ start_batch' = <<>> /\ stop_batch' = <<>> /\ regular_batch' = <<>>
    /\ idx' = 0
    /\ started' = 0 /\ stopped' = 0
    /\ stopSess' = 0 /\ stopProc' = FALSE /\ pops' = 0 /\ oneshots' = 0 /\ killed' = FALSE
    /\ workers' = <<>> /\ results' = <<>>
    /\ success_count' = 0 /\ fail_count' = 0 /\ logged' = <<>>
    /\ ppc' = "top"
    /\ UNCHANGED sessionVars
    /\ PrinterFrame

\* ----------------------------------------------------------- monitor_loop
\* len(threading.enumerate()) as far as it varies: the printer thread, the
\* loop threads and the worker threads that are alive
ThreadCount ==
    (IF ppc \in {"done", "dead"} THEN 0 ELSE 1)
    + Cardinality({i \in 1..Len(sess) : ThreadAlive(sess[i])})
    + Cardinality({w \in 1..Len(workers) : workers[w] = "running"})

\* the sum under game_sessions_lock: the entries of the map whose
\* sess.get("process") is a process and proc.poll() is None
ProcCount ==
    Cardinality({s \in Serials :
        /\ game_sessions[s] # 0
        /\ sess[game_sessions[s]].process
        /\ sess[game_sessions[s]].proc = "live"})

\* mutant: the monitor takes the handle out of the session dict
MonitorReadPops(s) == [s EXCEPT !.process = FALSE]

\* a session dict after the monitor's sess.get("process") and proc.poll()
MonitorRead(s) == s

\* One iteration of monitor_loop: the two counts and the [STATUS] line on the
\* console; the count of processes is the one region under the lock.
Monitor ==
    /\ ~stop_signal
    /\ ThreadCount >= 0 /\ ProcCount >= 0
    /\ sess' = [i \in 1..Len(sess) |-> MonitorRead(sess[i])]
    /\ UNCHANGED <<stop_signal, queueVars, game_sessions, ppc, printerLocals,
                   stopLocals, regularVars>>

\* ---------------------------------------------------------- specification
Next ==
    \/ Shutdown
    \/ FetchResponse
    \/ FetchError
    \/ \E i \in 1..Len(sess) : LoopPopen(i)
    \/ \E i \in 1..Len(sess) : LoopPopenRaises(i)
    \/ \E i \in 1..Len(sess) : LoopPublish(i)
    \/ \E i \in 1..Len(sess) : LoopCommunicate(i)
    \/ \E i \in 1..Len(sess) : ProcExit(i)
    \/ PrinterExit
    \/ Drain
    \/ HandleStart
    \/ StopGet
    \/ StopSet
    \/ StopRead
    \/ StopWaitExited
    \/ StopWaitTimeout
    \/ StopJoinEnded
    \/ StopJoinTimeout
    \/ StopPop
    \/ StopRun
    \/ Spawn
    \/ \E w \in 1..MaxBatch : WorkerRun(w)
    \/ Join
    \/ Summary
    \/ Clear
    \/ Monitor

Spec == Init /\ [][Next]_vars

\* The loop threads are scheduled: a thread that can take a step takes one.
\* LoopPopenRaises changes nothing, so the fairness of LoopPopen also says
\* that Popen does not fail forever.
LoopStep(i) ==
    /\ i \in 1..Len(sess)
    /\ (LoopPopen(i) \/ LoopPublish(i) \/ LoopCommunicate(i))

FairSpec == Spec /\ \A i \in 1..MaxSessions : WF_vars(LoopStep(i))

\* The classification alone: the queue holds any batch the fetcher can have
\* accepted, over texts that also carry both signatures, and print_loop makes
\* its pass over it.
ClassifyTexts ==
    Texts \cup { <<START_SIG, STOP_SIG>>, <<STOP_SIG, START_SIG>>, <<"echo", STOP_SIG>> }

ClassifyResponses ==
    SeqsUpTo([serial : RawSerials, command_text : ClassifyTexts \cup {<<>>}], MaxBatch)

InitClassify ==
    /\ stop_signal = FALSE
    /\ commands \in {Simplify(cmd_items) : cmd_items \in ClassifyResponses}
    /\ unread = (commands # <<>>)
    /\ game_sessions = [s \in Serials |-> 0]
    /\ sess = <<>>
    /\ ppc = "top"
    /\ batch = <<>> /\ start_batch = <<>> /\ stop_batch = <<>> /\ regular_batch = <<>>
    /\ idx = 0
    /\ started = 0 /\ stopped = 0
    /\ stopSess = 0 /\ stopProc = FALSE /\ pops = 0 /\ oneshots = 0 /\ killed = FALSE
    /\ workers = <<>>
    /\ results = <<>>
    /\ success_count = 0 /\ fail_count = 0 /\ logged = <<>>

NextClassify == Drain

SpecClassify == InitClassify /\ [][NextClassify]_vars

\* Two devices with sessions: the responses carry start and stop commands
\* for both serials, every text tokenizable; with no regular command the
\* regular block of print_loop is passed over.
ScopedItems ==
    [serial : Serials, command_text : {<<START_SIG>>, <<STOP_SIG>>}]

ScopedResponses == {Simplify(cmd_items) : cmd_items \in SeqsUpTo(ScopedItems, MaxBatch)}

\* FetchResponse over these responses
FetchScoped ==
    /\ ~stop_signal
    /\ IF Gate(commands)
       THEN \E simplified \in ScopedResponses : commands' = commands \o simplified
       ELSE UNCHANGED commands
    /\ unread' = (unread \/ commands' # commands)
    /\ FetchFrame

NextScoped ==
    \/ Shutdown
    \/ FetchScoped
    \/ FetchError
    \/ \E i \in 1..Len(sess) : LoopPopen(i)
    \/ \E i \in 1..Len(sess) : LoopPopenRaises(i)
    \/ \E i \in 1..Len(sess) : LoopPublish(i)
    \/ \E i \in 1..Len(sess) : LoopCommunicate(i)
    \/ \E i \in 1..Len(sess) : ProcExit(i)
    \/ PrinterExit
    \/ Drain
    \/ HandleStart
    \/ StopGet
    \/ StopSet
    \/ StopRead
    \/ StopWaitExited
    \/ StopWaitTimeout
    \/ StopJoinEnded
    \/ StopJoinTimeout
    \/ StopPop
    \/ StopRun
    \/ Clear
    \/ Monitor

SpecScoped == Init /\ [][NextScoped]_vars

\* ----------------------------------------------------------------- claims
SessionIds == 1..Len(sess)

\* print_loop took a step
PrinterMoved == <<ppc, idx>>' # <<ppc, idx>>

\* print_loop is inside handle_stop_game
InStop == ppc \in {"stop_set", "stop_read", "stop_wait", "stop_join", "stop_pop", "stop_run"}

\* the loop threads of serial s that are alive, and the sessions of s whose
\* game process is alive
LiveTasks(s) == {i \in SessionIds : sess[i].serial = s /\ ThreadAlive(sess[i])}
LiveProcs(s) == {i \in SessionIds : sess[i].serial = s /\ sess[i].proc = "live"}

\* C1: in every reachable state each serial has at most one live loop thread
\* and at most one live game process launched by a session loop.
C1_AtMostOnePerSerial ==
    \A s \in Serials :
        /\ Cardinality(LiveTasks(s)) <= 1
        /\ Cardinality(LiveProcs(s)) <= 1

\* C2: the queue never holds more than one response's batch; while it holds
\* a batch no step changes it except the printer's clear, which empties it (an
\* offer made meanwhile is dropped in full, never merged or appended); and the
\* queue is filled only from empty.
C2_GatedQueue ==
    [][ /\ Len(commands') <= MaxBatch
        /\ commands # <<>> =>
              \/ commands' = commands
              \/ ppc = "clear" /\ commands' = <<>>
        /\ (commands' # commands /\ commands' # <<>>) => commands = <<>> ]_vars

\* the queue holds a batch that print_loop is working on while the fetcher is
\* still polling: each response from here is an offer on a pending queue, and
\* leaves this very state
C2_Witness ==
    /\ commands # <<>>
    /\ Len(commands) = MaxBatch
    /\ ppc = "join"
    /\ ENABLED FetchResponse

\* C3: print_loop copies a batch only if it has not copied it before, the
\* queue holds exactly the copied batch through the whole cycle, and the clear
\* at the end of the cycle removes exactly that batch.
C3_ConsumedOnce ==
    [][ /\ (ppc = "top" /\ ppc' \notin {"top", "done"}) => (unread /\ batch' = commands)
        /\ ppc \notin {"top", "done"} => commands = batch
        /\ (ppc = "clear" /\ ppc' = "top") => (commands = batch /\ commands' = <<>>) ]_vars

\* a later cycle at work on a batch without start commands, after a cycle
\* that started a session was consumed and removed
C3_Witness ==
    /\ Len(sess) > 0
    /\ ppc = "stops"
    /\ start_batch = <<>>
    /\ commands = batch

\* C4: a start for a serial whose session's loop thread is alive returns with
\* the session map and every session dict (stop_evt, thread, process) as they
\* were: no new session, no new thread.
C4_StartIdempotent ==
    [][ (/\ ppc = "starts"
         /\ PrinterMoved
         /\ game_sessions[start_batch[idx].serial] # 0
         /\ ThreadAlive(sess[game_sessions[start_batch[idx].serial]]))
        => (/\ game_sessions' = game_sessions
            /\ sess' = sess
            /\ started' = started + 1) ]_vars

\* two starts for one serial in one batch, both handled: one session dict
\* exists, its loop thread alive
C4_Witness ==
    /\ Len(start_batch) = 2
    /\ start_batch[1].serial = start_batch[2].serial
    /\ started = 2
    /\ Len(sess) = 1
    /\ ThreadAlive(sess[1])
    /\ game_sessions[start_batch[1].serial] = 1

\* C5: a stop for a serial without a session returns without error, with the
\* session map unchanged and the stop command run exactly once.
C5_StaleStopSafe ==
    [][ (ppc = "stop_run" /\ stopSess = 0 /\ PrinterMoved)
        => (/\ ppc' # "dead"
            /\ stopped' = stopped + 1
            /\ oneshots' = 1
            /\ game_sessions' = game_sessions) ]_vars

\* C6: after the grace period the process the stop holds is not alive (it
\* exited, or it was killed); the join, ended or timed out, is followed by the
\* removal; and when the stop of an existing session reaches its one-shot run
\* the serial has been removed from the map, by exactly one pop.
C6_StopKillsAndRemoves ==
    [][ /\ (ppc = "stop_wait" /\ PrinterMoved) =>
              /\ sess'[stopSess].proc # "live"
              /\ killed' = (sess[stopSess].proc = "live")
        /\ (ppc = "stop_join" /\ PrinterMoved) => ppc' = "stop_pop"
        /\ (ppc = "stop_pop" /\ PrinterMoved) =>
              /\ ppc' = "stop_run"
              /\ game_sessions'[stop_batch[idx].serial] = 0
        /\ (ppc' = "stop_run" /\ stopSess' # 0) =>
              /\ pops' = 1
              /\ game_sessions'[stop_batch'[idx'].serial] = 0 ]_vars

\* a stop that had to kill the process has removed the serial
C6_Witness ==
    /\ ppc = "stop_run"
    /\ killed
    /\ pops = 1
    /\ game_sessions[stop_batch[idx].serial] = 0
    /\ sess[stopSess].proc = "exited"

\* session i's process has exited with stop_evt not set, the loop thread
\* still in proc.communicate()
ExitedUnsignaled(i) ==
    /\ i \in SessionIds
    /\ sess[i].tpc = "communicate"
    /\ sess[i].proc = "exited"
    /\ ~sess[i].stop

Relaunched(i) == i \in SessionIds /\ sess[i].proc = "live"
Signaled(i) == i \in SessionIds /\ sess[i].stop

\* every session whose stop_evt is not set and whose thread was started is the
\* entry of its serial in the map, its loop thread alive
UnsignaledAreRunning ==
    \A i \in SessionIds :
        (~sess[i].stop /\ sess[i].tpc # "none") =>
            (ThreadAlive(sess[i]) /\ game_sessions[sess[i].serial] = i)

\* C7: when a session's process exits with stop_evt not set, the loop thread
\* goes back to the top of its loop and a new process is launched for the
\* session, unless stop_evt is set before that; and as long as stop_evt is not
\* set the serial stays in the session map with its loop thread alive.
C7_RelaunchOnExit ==
    /\ [][ /\ UnsignaledAreRunning'
           /\ \A i \in SessionIds :
                 (ExitedUnsignaled(i) /\ sess'[i].tpc # sess[i].tpc)
                     => sess'[i].tpc = "while" ]_vars
    /\ \A i \in 1..MaxSessions : ExitedUnsignaled(i) ~> (Relaunched(i) \/ Signaled(i))

\* after a process exit the loop is back at its top, about to launch again,
\* the session still the entry of its serial
C7_Witness ==
    \E i \in SessionIds :
        /\ sess[i].tpc = "while"
        /\ sess[i].proc = "exited"
        /\ ~sess[i].stop
        /\ game_sessions[sess[i].serial] = i

InGroup(group, cmd) == \E k \in 1..Len(group) : group[k] = cmd

GroupsOf(cmd) ==
    {g \in {"start", "stop", "regular"} :
        \/ g = "start" /\ InGroup(start_batch, cmd)
        \/ g = "stop" /\ InGroup(stop_batch, cmd)
        \/ g = "regular" /\ InGroup(regular_batch, cmd)}

InStartBatch(cmd) == InGroup(start_batch, cmd)
InStopBatch(cmd) == InGroup(stop_batch, cmd)
InRegularBatch(cmd) == InGroup(regular_batch, cmd)

\* C8: once a batch is classified, each of its commands (all with a serial
\* and a text) is in exactly one of start_batch, stop_batch and regular_batch,
\* and each of the three lists is the batch's subsequence of the commands it
\* holds: together they hold the batch's commands, in their original order.
C8_ClassificationPartitions ==
    ppc \notin {"top", "done"} =>
        /\ \A k \in 1..Len(batch) : Truthy(batch[k])
        /\ \A k \in 1..Len(batch) : Cardinality(GroupsOf(batch[k])) = 1
        /\ start_batch = SelectSeq(batch, InStartBatch)
        /\ stop_batch = SelectSeq(batch, InStopBatch)
        /\ regular_batch = SelectSeq(batch, InRegularBatch)
        /\ Len(start_batch) + Len(stop_batch) + Len(regular_batch) = Len(batch)

\* a classified batch with a command whose text carries both signatures, next
\* to a regular command
C8_Witness ==
    /\ ppc \notin {"top", "done"}
    /\ Len(batch) = 2
    /\ \E k \in 1..Len(batch) :
           /\ Contains(batch[k].command_text, START_SIG)
           /\ Contains(batch[k].command_text, STOP_SIG)
    /\ Len(regular_batch) = 1

\* C9: while a start is handled no stop has been handled and no worker
\* launched; while a stop is handled every start command of the batch has been
\* handled and no worker launched; when a worker has been launched every start
\* and every stop command of the batch has been handled, its one-shot run
\* included.
C9_GroupOrder ==
    /\ ppc = "starts" => (started = idx - 1 /\ stopped = 0 /\ workers = <<>>)
    /\ (ppc = "stops" \/ InStop) =>
           (started = Len(start_batch) /\ stopped = idx - 1 /\ workers = <<>>)
    /\ workers # <<>> => (started = Len(start_batch) /\ stopped = Len(stop_batch))

\* a batch that lists a regular command before a stop command: the worker is
\* launched after the stop has returned
C9_Witness ==
    /\ Len(batch) = 2
    /\ IsRegular(batch[1])
    /\ IsStop(batch[2])
    /\ stopped = 1
    /\ Len(workers) = 1

\* C10: when the workers are joined, the results list has one result per
\* regular command of the batch.
C10_ResultPerCommand ==
    ppc = "summary" => Len(results) = Len(regular_batch)

\* the positions of the results with exit code 0, with another exit code,
\* and with another exit code on serial s
ZeroResults == {k \in 1..Len(results) : results[k].code = 0}
NonZeroResults == {k \in 1..Len(results) : results[k].code # 0}
NonZeroResultsOf(s) == {k \in NonZeroResults : results[k].serial = s}
LoggedFor(log, s) == {k \in 1..Len(log) : log[k] = s}

\* C11: the summary step sets success to the number of results with exit
\* code 0 and fail to the number of results with another exit code, which sum
\* to the number of results, and appends one error-log line per failed result,
\* with that result's serial; no other step of a cycle appends an error-log
\* line, so none is written for a successful result or a start or stop command.
C11_SummaryCounts ==
    [][ /\ (ppc = "summary" /\ ppc' = "clear") =>
               /\ success_count' = Cardinality(ZeroResults)
               /\ fail_count' = Cardinality(NonZeroResults)
               /\ success_count' + fail_count' = Len(results)
               /\ Len(logged') = Cardinality(NonZeroResults)
               /\ \A s \in Serials :
                      Cardinality(LoggedFor(logged', s)) = Cardinality(NonZeroResultsOf(s))
        /\ (logged' # logged) => (ppc = "summary" \/ (ppc = "clear" /\ logged' = <<>>)) ]_vars

\* a summary of two results, one with exit code 0 and one launch fault, the
\* fault's serial logged
C11_Witness ==
    /\ ppc = "clear"
    /\ Len(results) = 2
    /\ success_count = 1
    /\ fail_count = 1
    /\ \E k \in 1..2 : results[k].code = LaunchFault /\ logged = <<results[k].serial>>

\* C12: whatever command of a batch fails, print_loop is never left in the
\* middle of a cycle: the printer thread does not die on a command, so it
\* goes on to the remaining commands, the clear of the queue and later cycles.
C12_CycleNeverAborts == ppc # "dead"

\* the sessions that are entries of the session map
MappedSessions == {game_sessions[s] : s \in Serials} \ {0}

\* C13: the step that signals shutdown (stop_event.set() in main) signals
\* the stop_evt of every session in the session map.
C13_ShutdownSignalsSessions ==
    [][ (~stop_signal /\ stop_signal') =>
            \A i \in MappedSessions : sess'[i].stop ]_vars

\* C14 as stated: the drain removes the batch it returns, so in every state in
\* which print_loop is classifying or executing a batch the queue is empty.
C14_DrainRemoves == ppc \notin {"top", "done"} => commands = <<>>

\* C14: the drain copies the full current batch under commands_lock and leaves
\* it in the queue; in every state in which print_loop is classifying or
\* executing a batch the queue holds exactly that batch; the clear at the end
\* of the cycle, under the same lock, empties the queue.
C14_DrainCopies ==
    [][ /\ (ppc = "top" /\ batch' # <<>>) => (batch' = commands /\ commands' = commands)
        /\ ppc' \notin {"top", "done"} => (batch' # <<>> /\ commands' = batch')
        /\ (ppc = "clear" /\ PrinterMoved) => commands' = <<>> ]_vars

\* print_loop inside a stop command of a batch of two, the queue still
\* holding the batch
C14_Witness ==
    /\ ppc = "stop_run"
    /\ Len(batch) = 2
    /\ commands = batch

\* C15: when handle_stop_game returns for a serial that had a session, no
\* process launched by that session's loop is alive, whatever the loop thread
\* was doing (launching, publishing or clearing the handle) meanwhile.
C15_StopLeavesNoProcess ==
    [][ (ppc = "stop_run" /\ stopSess # 0 /\ PrinterMoved /\ ppc' # "dead")
            => sess'[stopSess].proc # "live" ]_vars

\* C16: in every reachable state in which print_loop is not inside a
\* start or stop handler, every serial that has an entry in the session map
\* has a session whose loop thread is alive and whose stop_evt is not set.
C16_MappedAreRunning ==
    ~InStop =>
        \A i \in MappedSessions : ThreadAlive(sess[i]) /\ ~sess[i].stop

\* the worker threads of the cycle that have not ended
RunningWorkers == {w \in 1..Len(workers) : workers[w] = "running"}

\* C17: worker w is the one invocation of regular_batch[w], so there is never
\* more than one per regular command; once print_loop has passed the joins
\* (summary, clear) there is exactly one per regular command and none is
\* running; the running workers never outnumber the commands of the batch; and
\* outside the regular block, where print_loop takes and handles the next
\* batch, no worker exists.
C17_Barrier ==
    /\ Len(workers) <= Len(regular_batch)
    /\ Cardinality(RunningWorkers) <= Len(batch)
    /\ ppc = "join" => Len(workers) = Len(regular_batch)
    /\ ppc \in {"summary", "clear"} =>
           (Len(workers) = Len(regular_batch) /\ RunningWorkers = {})
    /\ ppc \notin {"spawn", "join", "summary", "clear"} => workers = <<>>

\* the summary of a cycle with two regular commands, one of whose workers
\* ended on an exception
C17_Witness ==
    /\ ppc = "summary"
    /\ Len(regular_batch) = 2
    /\ \E w \in 1..2 : workers[w] = "died"
    /\ \E w \in 1..2 : workers[w] = "done"

\* C18: an iteration of monitor_loop leaves the command queue, the session
\* map and every session dict (stop_evt, loop thread, process handle and
\* process) as they were.
C18_MonitorReadOnly ==
    [][ Monitor =>
            /\ commands' = commands
            /\ game_sessions' = game_sessions
            /\ sess' = sess ]_vars

\* the monitor runs with a published live process to count, next to the
\* printer thread and a loop thread
C18_Witness ==
    /\ ENABLED Monitor
    /\ ProcCount = 1
    /\ ThreadCount = 2
    /\ commands # <<>>

\* the batch holds a start command and a stop command for serial s
StartAndStopFor(s) ==
    /\ \E k \in 1..Len(batch) : IsStart(batch[k]) /\ batch[k].serial = s
    /\ \E k \in 1..Len(batch) : IsStop(batch[k]) /\ batch[k].serial = s

\* C19: at the end of a cycle (print_loop at its clear), every serial for
\* which the batch held both a start and a stop command has no entry in the
\* session map, in whichever order the batch listed the two.
C19_StartThenStopLeavesNone ==
    ppc = "clear" =>
        \A s \in Serials : StartAndStopFor(s) => game_sessions[s] = 0

\* the end of a cycle whose batch listed the stop before the start: the
\* start created the session, the stop then set its stop_evt and removed it
C19_Witness ==
    /\ ppc = "clear"
    /\ Len(batch) = 2
    /\ IsStop(batch[1]) /\ IsStart(batch[2])
    /\ batch[1].serial = batch[2].serial
    /\ Len(sess) = 1 /\ sess[1].stop
    /\ game_sessions[batch[1].serial] = 0

\* the serial of the start or stop command print_loop is handling
HandledSerial ==
    IF ppc = "starts" THEN start_batch[idx].serial ELSE stop_batch[idx].serial

\* C20: a step of handle_start_game or handle_stop_game for serial s leaves
\* the map entry of every other serial t, and the session dicts of t (stop_evt,
\* loop thread, process handle and process), as they were.
C20_ScopedToSerial ==
    [][ ((ppc = "starts" \/ ppc = "stops" \/ InStop) /\ PrinterMoved) =>
            \A t \in Serials \ {HandledSerial} :
                /\ game_sessions'[t] = game_sessions[t]
                /\ \A i \in SessionIds : sess[i].serial = t => sess'[i] = sess[i] ]_vars

\* a stop for one serial has removed its session while the other serial's
\* session is in the map, its loop thread and its process alive
C20_Witness ==
    /\ ppc = "stop_run"
    /\ pops = 1
    /\ \E t \in Serials \ {stop_batch[idx].serial} :
           /\ game_sessions[t] # 0
           /\ ThreadAlive(sess[game_sessions[t]])
           /\ sess[game_sessions[t]].proc = "live"

====
